---- MODULE Spec2Model ----
(***************************************************************************)
(* waystt-wrapper: supervision of one child process behind a GTK overlay   *)
(* window.  The model follows src/main.rs and src/process.rs: the child    *)
(* slot (Rc<RefCell<Option<ChildProcess>>>), the exit-code cell, the       *)
(* Escape handler, the close-request handler, the 100 ms poller, the       *)
(* offloaded blocking wait with its continuation, and main().              *)
(*                                                                         *)
(* Every handler is an operator from a state record to a state record, so  *)
(* that a handler which calls another one (window.close() emits            *)
(* close-request synchronously) is the composition of the two operators.   *)
(* An Option<T> is a sequence of length at most one.                       *)
(***************************************************************************)
EXTENDS Integers, Sequences, FiniteSets, TLC

VARIABLES
    pc,             \* main(): "start" | "activate" | "loop" | "returned" | "exited" | "aborted"
    args,           \* Args::command, the trailing command-line arguments
    command,        \* Config::command
    child_cell,     \* Option<ChildProcess> in the RefCell: "None" | "Some"
    child_borrowed, \* the RefCell's exclusive borrow flag
    exit_code,      \* Rc<Cell<i32>>
    window,         \* "none" | "open" | "destroyed"
    icon,           \* icon name shown: "none" | "config" | "content-loading-symbolic"
    proc,           \* the OS process: "none" | "running" | "zombie" | "reaped"
    status,         \* ExitStatus::code() of the child once it has exited (Option<i32>)
    killed,         \* SIGKILL was delivered to the child
    wait,           \* offloaded wait: "idle" | "blocking" | "returned" | "done"
    wait_result,    \* what spawn_blocking(..).await yields
    poller,         \* the timeout source is still installed (ControlFlow::Continue)
    final,          \* the ExitCode main() returned (Option<u8>)
    bcasts,         \* number of killall broadcasts issued
    log             \* history: the effects on child, cell and window, in order

vars == <<pc, args, command, child_cell, child_borrowed, exit_code, window, icon, proc, status,
          killed, wait, wait_result, poller, final, bcasts, log>>

(* ------------------------------ bounds --------------------------------- *)

\* the child's own exit codes range over 0..MaxExitCode
MaxExitCode == 3
\* at most this many panic-combo broadcasts are explored
MaxBroadcasts == 2
\* the command line carries at most this many trailing arguments
MaxArgs == 2

(* ------------------------- program constants --------------------------- *)

InitialExitCode == 0
FailureCode == 1
DismissCode == 130
U8Modulus == 256

ExitCodes == 0..MaxExitCode
\* ExitStatus::code(): Some(c) for a normal exit, None when killed by a signal
Statuses == {<<c>> : c \in ExitCodes} \cup {<<>>}
Modifiers == {"ALT", "CONTROL", "SHIFT"}
Keys == {"Escape", "Other"}
SigResults == {"ok", "err"}
BcastResults == {"ok", "err"}

Words == {"echo", "test"}
ArgCommands == UNION {[1..n -> Words] : n \in 0..MaxArgs}
DefaultCommand == <<"waystt", "--pipe-to", "wl-copy">>

NoResult == [kind |-> "none", code |-> <<>>]

(* --------------------------- the state record -------------------------- *)

State ==
    [pc |-> pc, args |-> args, command |-> command, child_cell |-> child_cell, child_borrowed |-> child_borrowed,
     exit_code |-> exit_code, window |-> window, icon |-> icon, proc |-> proc,
     status |-> status, killed |-> killed, wait |-> wait,
     wait_result |-> wait_result, poller |-> poller, final |-> final,
     bcasts |-> bcasts, log |-> log]

Apply(s) ==
    /\ pc' = s.pc
    /\ args' = s.args
    /\ command' = s.command
    /\ child_cell' = s.child_cell
    /\ child_borrowed' = s.child_borrowed
    /\ exit_code' = s.exit_code
    /\ window' = s.window
    /\ icon' = s.icon
    /\ proc' = s.proc
    /\ status' = s.status
    /\ killed' = s.killed
    /\ wait' = s.wait
    /\ wait_result' = s.wait_result
    /\ poller' = s.poller
    /\ final' = s.final
    /\ bcasts' = s.bcasts
    /\ log' = s.log

Logged(s, e) == [s EXCEPT !.log = Append(@, e)]

\* Option::unwrap_or
UnwrapOr(opt, d) == IF opt = <<>> THEN d ELSE opt[1]

\* `code as u8`
AsU8(c) == c % U8Modulus

(* ------------------------------- config.rs ---------------------------- *)

\* Config::from keeping an empty command as it is
config_from_keeps_empty(args_command) == args_command

\* impl From<Args> for Config: the command field
config_from(args_command) ==
    IF args_command = <<>> THEN DefaultCommand ELSE args_command

(* ------------------------------ process.rs ----------------------------- *)

\* ChildProcess::spawn: <<state, result>>; os_ok is whether the OS can create
\* the process
spawn(s, cmd, os_ok) ==
    IF Len(cmd) = 0 THEN <<s, "EmptyCommand">>
    ELSE IF ~os_ok THEN <<s, "SpawnFailed">>
    ELSE <<Logged([s EXCEPT !.proc = "running"], "spawn"), "Ok">>

\* ChildProcess::send_sigusr1: kill(pid, SIGUSR1); the OS decides the result
send_sigusr1(s, sigres) ==
    Logged(s, IF sigres = "ok" THEN "sigusr1_ok" ELSE "sigusr1_err")

\* ChildProcess::force_kill: Child::kill, failure only logged
force_kill(s) ==
    LET s1 == Logged(s, "force_kill")
    IN  IF s1.proc = "running"
        THEN [s1 EXCEPT !.proc = "zombie", !.status = <<>>, !.killed = TRUE]
        ELSE s1

\* killall(name, Some("-1")): shells out, the result is only logged by the caller
\* (CommandExt::status_checked: Err when killall cannot run or exits non-zero)
killall(s, bres) ==
    Logged([s EXCEPT !.bcasts = @ + 1],
           IF bres = "ok" THEN "killall_ok" ELSE "killall_err")

(* ------------------------------- main.rs ------------------------------- *)

\* close_request without the take: the handle stays in the slot
close_request_no_take(s, sigres) ==
    IF s.child_borrowed
    THEN [s EXCEPT !.pc = "aborted"]
    ELSE IF s.child_cell = "Some"
    THEN LET s1 == Logged(s, "take_close")
             s2 == send_sigusr1(s1, sigres)
             s3 == IF sigres = "err" THEN force_kill(s2) ELSE s2
         IN  Logged([s3 EXCEPT !.exit_code = DismissCode], "write_close")
    ELSE s

\* close_request without exit_code.set(130)
close_request_no_write(s, sigres) ==
    IF s.child_borrowed
    THEN [s EXCEPT !.pc = "aborted"]
    ELSE IF s.child_cell = "Some"
    THEN LET s1 == Logged([s EXCEPT !.child_cell = "None"], "take_close")
             s2 == send_sigusr1(s1, sigres)
         IN  IF sigres = "err" THEN force_kill(s2) ELSE s2
    ELSE s

\* the close-request closure of setup_close_handler.  borrow_mut() on a RefCell
\* that is already exclusively borrowed panics inside the GTK callback, which
\* aborts the process.
close_request(s, sigres) ==
    IF s.child_borrowed
    THEN [s EXCEPT !.pc = "aborted"]
    ELSE IF s.child_cell = "Some"
    THEN LET s1 == Logged([s EXCEPT !.child_cell = "None"], "take_close")
             s2 == send_sigusr1(s1, sigres)
             s3 == IF sigres = "err" THEN force_kill(s2) ELSE s2
         IN  Logged([s3 EXCEPT !.exit_code = DismissCode], "write_close")
    ELSE s

\* window.close() / a close request of the host: close-request is emitted
\* synchronously; the handler returns Propagation::Proceed, so the window is
\* destroyed afterwards.  A window that is gone (the weak reference no longer
\* upgrades) is not closed again.
window_close(s, sigres) ==
    IF s.window # "open"
    THEN s
    ELSE LET h == close_request(Logged(s, "close_request"), sigres)
         IN  IF h.pc = "aborted" THEN h ELSE [h EXCEPT !.window = "destroyed"]

\* wait_for_child_exit: the blocking wait is handed to a worker
wait_for_child_exit(s) ==
    Logged([s EXCEPT !.wait = "blocking"], "wait_start")

\* the continuation returning early from its error arms: no write, no close
wait_continuation_err_returns(s, sigres) ==
    IF s.wait_result.kind = "ok"
    THEN LET s1 == Logged([s EXCEPT !.exit_code = UnwrapOr(s.wait_result.code, FailureCode),
                                    !.wait = "done"], "write_wait")
         IN  window_close(s1, sigres)
    ELSE [s EXCEPT !.wait = "done"]

\* the continuation of wait_for_child_exit, after spawn_blocking(..).await
wait_continuation(s, sigres) ==
    LET code == IF s.wait_result.kind = "ok"
                THEN UnwrapOr(s.wait_result.code, FailureCode)
                ELSE FailureCode
        s1 == Logged([s EXCEPT !.exit_code = code, !.wait = "done"], "write_wait")
    IN  window_close(s1, sigres)

\* initiate_shutdown falling back to force_kill when the signal fails
initiate_shutdown_force_kills(s, sigres) ==
    LET s1 == send_sigusr1(s, sigres)
        k  == IF sigres = "err" THEN force_kill(s1) ELSE s1
        s2 == Logged([k EXCEPT !.icon = "content-loading-symbolic"], "icon_stopping")
    IN  wait_for_child_exit(s2)

\* initiate_shutdown: signal (failure only logged), icon, offloaded wait
initiate_shutdown(s, sigres) ==
    LET s1 == send_sigusr1(s, sigres)
        s2 == Logged([s1 EXCEPT !.icon = "content-loading-symbolic"], "icon_stopping")
    IN  wait_for_child_exit(s2)

\* `intersects` instead of `contains`: either modifier is enough
is_panic_combo_intersects(m_state) == {"ALT", "CONTROL"} \cap m_state # {}

\* m_state.contains(ALT_MASK | CONTROL_MASK)
is_panic_combo(m_state) == {"ALT", "CONTROL"} \subseteq m_state

\* handle_escape_press giving up when the broadcast failed
handle_escape_press_bcast_fatal(s, m_state, bres, sigres) ==
    LET s1 == IF is_panic_combo(m_state) THEN killall(s, bres) ELSE s
    IN  IF is_panic_combo(m_state) /\ bres = "err"
        THEN s1
        ELSE IF s1.child_cell = "Some"
        THEN initiate_shutdown(
                 Logged([s1 EXCEPT !.child_cell = "None"], "take_escape"), sigres)
        ELSE s1

\* handle_escape_press: the broadcast on the panic combo (its error is only
\* logged), then the take and the local shutdown
handle_escape_press(s, m_state, bres, sigres) ==
    LET s1 == IF is_panic_combo(m_state) THEN killall(s, bres) ELSE s
    IN  IF s1.child_cell = "Some"
        THEN initiate_shutdown(
                 Logged([s1 EXCEPT !.child_cell = "None"], "take_escape"), sigres)
        ELSE s1

\* the key-pressed closure of setup_key_controller
key_pressed(s, keyval, m_state, bres, sigres) ==
    IF keyval # "Escape" THEN s ELSE handle_escape_press(s, m_state, bres, sigres)

handle_unexpected_exit(s, st, sigres) ==
    LET s1 == Logged([s EXCEPT !.exit_code = UnwrapOr(st, FailureCode)], "write_poll")
    IN  window_close(s1, sigres)

\* Child::try_wait: <<state, result>>, result "err" | "none" | "some"
try_wait(s, err) ==
    IF err THEN <<s, "err">>
    ELSE IF s.proc = "running" THEN <<s, "none">>
    ELSE <<[s EXCEPT !.proc = "reaped"], "some">>

\* the timeout closure answering Break while the child is still running
child_monitor_tick_breaks(s, err, sigres) ==
    IF s.child_cell = "None"
    THEN [s EXCEPT !.poller = FALSE]
    ELSE LET b == [s EXCEPT !.child_borrowed = TRUE]
             r == try_wait(b, err)
         IN  IF r[2] = "some"
             THEN LET h == handle_unexpected_exit(r[1], r[1].status, sigres)
                  IN  IF h.pc = "aborted"
                      THEN h
                      ELSE [h EXCEPT !.poller = FALSE, !.child_borrowed = FALSE]
             ELSE [r[1] EXCEPT !.child_borrowed = FALSE, !.poller = FALSE]

\* the timeout closure dropping child_ref before handle_unexpected_exit
child_monitor_tick_drops_borrow(s, err, sigres) ==
    IF s.child_cell = "None"
    THEN [s EXCEPT !.poller = FALSE]
    ELSE LET b == [s EXCEPT !.child_borrowed = TRUE]
             r == try_wait(b, err)
             u == [r[1] EXCEPT !.child_borrowed = FALSE]
         IN  IF r[2] = "some"
             THEN [handle_unexpected_exit(u, u.status, sigres) EXCEPT !.poller = FALSE]
             ELSE u

\* the timeout closure of setup_child_monitor; child_ref lives to the end of it
child_monitor_tick(s, err, sigres) ==
    IF s.child_cell = "None"
    THEN [s EXCEPT !.poller = FALSE]
    ELSE LET b == [s EXCEPT !.child_borrowed = TRUE]
             r == try_wait(b, err)
         IN  IF r[2] = "some"
             THEN LET h == handle_unexpected_exit(r[1], r[1].status, sigres)
                  IN  IF h.pc = "aborted"
                      THEN h
                      ELSE [h EXCEPT !.poller = FALSE, !.child_borrowed = FALSE]
             ELSE [r[1] EXCEPT !.child_borrowed = FALSE]

\* on_activate whose overlay-error arm forgets exit_code.set(1)
on_activate_no_code(s, spawn_ok, overlay_ok) ==
    LET sp == spawn([s EXCEPT !.pc = "loop"], s.command, spawn_ok)
        s1 == sp[1]
    IN  IF sp[2] # "Ok"
        THEN Logged([s1 EXCEPT !.exit_code = FailureCode], "write_activate")
        ELSE IF ~overlay_ok
             THEN Logged(s1, "write_activate")
             ELSE Logged([s1 EXCEPT !.child_cell = "Some", !.window = "open",
                                    !.icon = "config", !.poller = TRUE], "present")

\* on_activate: spawn, create_overlay_window, the three setups, present
on_activate(s, spawn_ok, overlay_ok) ==
    LET sp == spawn([s EXCEPT !.pc = "loop"], s.command, spawn_ok)
        s1 == sp[1]
    IN  IF sp[2] # "Ok"
        THEN Logged([s1 EXCEPT !.exit_code = FailureCode], "write_activate")
        ELSE IF ~overlay_ok
             THEN Logged([s1 EXCEPT !.exit_code = FailureCode], "write_activate")
             ELSE Logged([s1 EXCEPT !.child_cell = "Some", !.window = "open",
                                    !.icon = "config", !.poller = TRUE], "present")

\* main(), after run_with_args returned
main_return(s) ==
    [s EXCEPT !.final = <<AsU8(s.exit_code)>>, !.pc = "exited"]

(* ------------------------------ actions -------------------------------- *)

Init ==
    /\ pc = "start"
    /\ args \in ArgCommands
    /\ command = <<>>
    /\ child_cell = "None"
    /\ child_borrowed = FALSE
    /\ exit_code = InitialExitCode
    /\ window = "none"
    /\ icon = "none"
    /\ proc = "none"
    /\ status = <<>>
    /\ killed = FALSE
    /\ wait = "idle"
    /\ wait_result = NoResult
    /\ poller = FALSE
    /\ final = <<>>
    /\ bcasts = 0
    /\ log = <<>>

\* main(): Args::parse, Config::from
ParseConfig ==
    /\ pc = "start"
    /\ Apply([State EXCEPT !.command = config_from(args), !.pc = "activate"])

Activate ==
    /\ pc = "activate"
    /\ \E spawn_ok \in BOOLEAN, overlay_ok \in BOOLEAN :
           Apply(on_activate(State, spawn_ok, overlay_ok))

\* the child terminates: with an exit code, or killed by a signal
ChildExits ==
    /\ pc = "loop"
    /\ proc = "running"
    /\ \E st \in Statuses : Apply([State EXCEPT !.proc = "zombie", !.status = st])

KeyPress ==
    /\ pc = "loop"
    /\ window = "open"
    /\ \E keyval \in Keys, m_state \in SUBSET Modifiers,
          bres \in BcastResults, sigres \in SigResults :
           /\ (keyval = "Escape" /\ is_panic_combo(m_state)) => bcasts < MaxBroadcasts
           /\ Apply(key_pressed(State, keyval, m_state, bres, sigres))

\* the host (compositor) asks the window to close
HostCloseRequest ==
    /\ pc = "loop"
    /\ window = "open"
    /\ \E sigres \in SigResults :
           Apply(window_close(Logged(State, "host_dismiss"), sigres))

PollTick ==
    /\ pc = "loop"
    /\ poller
    /\ \E err \in BOOLEAN, sigres \in SigResults :
           Apply(child_monitor_tick(State, err, sigres))

\* a worker that stores the exit code in the cell itself
WaitReturns_writes_cell ==
    /\ pc = "loop"
    /\ wait = "blocking"
    /\ proc \in {"zombie", "reaped"}
    /\ Apply([State EXCEPT !.proc = "reaped", !.wait = "returned",
                           !.wait_result = [kind |-> "ok", code |-> status],
                           !.exit_code = UnwrapOr(status, FailureCode),
                           !.log = Append(@, "wait_return")])

\* the worker's child.wait() returns: the status once the child has exited,
\* or an error of the wait call or of the offloaded task
WaitReturns ==
    /\ pc = "loop"
    /\ wait = "blocking"
    /\ \/ /\ proc \in {"zombie", "reaped"}
          /\ Apply([State EXCEPT !.proc = "reaped", !.wait = "returned",
                                 !.wait_result = [kind |-> "ok", code |-> status],
                                 !.log = Append(@, "wait_return")])
       \/ \E k \in {"io_err", "join_err"} :
              Apply([State EXCEPT !.wait = "returned",
                                  !.wait_result = [kind |-> k, code |-> <<>>],
                                  !.log = Append(@, "wait_return")])

WaitContinuation ==
    /\ pc = "loop"
    /\ wait = "returned"
    /\ \E sigres \in SigResults : Apply(wait_continuation(State, sigres))

\* run_with_args returns once the application holds no window
EventLoopReturns ==
    /\ pc = "loop"
    /\ window # "open"
    /\ Apply([State EXCEPT !.pc = "returned"])

MainReturn ==
    /\ pc = "returned"
    /\ Apply(main_return(State))

Next ==
    \/ ParseConfig
    \/ Activate
    \/ ChildExits
    \/ KeyPress
    \/ HostCloseRequest
    \/ PollTick
    \/ WaitReturns
    \/ WaitContinuation
    \/ EventLoopReturns
    \/ MainReturn

Spec == Init /\ [][Next]_vars

\* the scheduling the event loop guarantees: an installed timeout keeps firing,
\* the worker and the continuation run, run_with_args and main return
FairSpec ==
    /\ Spec
    /\ WF_vars(PollTick)
    /\ WF_vars(WaitReturns)
    /\ WF_vars(WaitContinuation)
    /\ WF_vars(EventLoopReturns)
    /\ WF_vars(MainReturn)

(* ----------------------- history of the run ---------------------------- *)

Has(e) == \E i \in DOMAIN log : log[i] = e
Count(e) == Cardinality({i \in DOMAIN log : log[i] = e})
Pos(e) == CHOOSE i \in DOMAIN log : log[i] = e
Before(a, b) == Has(a) /\ Has(b) /\ Pos(a) < Pos(b)

Takes == Count("take_escape") + Count("take_close")
TriggerWrites == Count("write_wait") + Count("write_poll") + Count("write_close")
WindowShown == Has("present")
RunOver == pc \in {"exited", "aborted"}
\* the exit code the child's status stands for (status.code().unwrap_or(1))
ChildCode == UnwrapOr(status, FailureCode)

(* ------------------------------ claims --------------------------------- *)

\* C1: in every run with the window shown exactly one of the three triggers
\* removes the handle from the slot: never more than one take, the slot stays
\* empty after the take, a trigger firing on the empty slot is a no-op, and a
\* finished run has seen exactly one take.
C1_ExactlyOneTake ==
    /\ Takes <= 1
    /\ (Takes = 1) => child_cell = "None"
    /\ (pc = "loop" /\ WindowShown /\ child_cell = "None") =>
          \A sigres \in SigResults, err \in BOOLEAN, m \in SUBSET Modifiers,
             bres \in BcastResults :
              /\ close_request(State, sigres) = State
              /\ child_monitor_tick(State, err, sigres) = [State EXCEPT !.poller = FALSE]
              /\ LET k == key_pressed(State, "Escape", m, bres, sigres)
                 IN  /\ k = [State EXCEPT !.bcasts = k.bcasts, !.log = k.log]
                     /\ \A i \in DOMAIN k.log :
                            i > Len(log) => k.log[i] \in {"killall_ok", "killall_err"}
    /\ (WindowShown /\ RunOver) => Takes = 1

\* C2: a run that showed the window and reached program exit has written the
\* exit-code cell exactly once (wait continuation, poller and close-request
\* handler together).
C2_WrittenExactlyOnce ==
    (pc = "exited" /\ WindowShown) => TriggerWrites = 1

\* C3: when the poller has detected the child's own exit with code c, the
\* run ends with main returning c as the program's exit status.
C3_UnexpectedExitCode ==
    (RunOver /\ Has("write_poll") /\ status # <<>>) =>
        (pc = "exited" /\ final = <<AsU8(status[1])>>)

\* C4 (as stated): whenever the host dismissed the window, the program's
\* final exit code is 130, whatever happened before the dismiss.
C4_DismissAlways130 ==
    (pc = "exited" /\ Has("host_dismiss")) => final = <<DismissCode>>

\* C4 (amended): whenever the host's close-request found the handle still in
\* the slot (host-dismiss won the take), the program's final exit code is 130,
\* independent of the child's actual exit status.
C4_DismissTake130 ==
    (pc = "exited" /\ Has("host_dismiss") /\ Has("take_close")) =>
        (final = <<DismissCode>> /\ exit_code = DismissCode)

C4_Witness ==
    /\ pc = "exited"
    /\ Has("host_dismiss") /\ Has("take_close")
    /\ proc = "zombie" /\ ~killed /\ status = <<0>>
    /\ final = <<DismissCode>>

\* C5: on user-cancel the steps happen in the order take, graceful signal,
\* icon set to stopping, wait handed off, wait returns, exit code written,
\* close requested; and the program's final exit code is the child's real
\* exit code.
C5_UserCancelOrder ==
    Has("take_escape") =>
        /\ \/ Before("take_escape", "sigusr1_ok")
           \/ Before("take_escape", "sigusr1_err")
        /\ Before("sigusr1_ok", "icon_stopping") \/ Before("sigusr1_err", "icon_stopping")
        /\ Before("icon_stopping", "wait_start")
        /\ Has("write_wait") => Before("wait_return", "write_wait")
        /\ (Has("write_wait") /\ ~Has("host_dismiss")) =>
               Before("write_wait", "close_request")
        /\ pc = "exited" =>
               /\ wait = "done"
               /\ wait_result.kind = "ok" => final = <<AsU8(ChildCode)>>

\* C6: a poll tick whose try_wait fails while the slot is occupied commits a
\* failure exit code, requests the window close and stops polling.
C6_PollErrorShutsDown ==
    (pc = "loop" /\ poller /\ child_cell = "Some") =>
        \A sigres \in SigResults :
            LET t == child_monitor_tick(State, TRUE, sigres)
            IN  /\ ~t.poller
                /\ t.exit_code = FailureCode
                /\ t.window # "open"

\* C7: when the graceful signal fails during user-cancel the failure is only
\* logged: the icon is set to stopping, the wait is started and completes,
\* the cell receives the child's status, the window close is requested, and
\* the supervisor neither aborts nor force-kills.
C7_SignalFailureOnCancel ==
    (Has("take_escape") /\ Has("sigusr1_err")) =>
        /\ icon = "content-loading-symbolic"
        /\ Has("wait_start")
        /\ ~Has("force_kill")
        /\ pc # "aborted"
        /\ pc = "exited" =>
               /\ Has("wait_return")
               /\ Has("write_wait")
               /\ Has("close_request")
               /\ wait_result.kind = "ok" => exit_code = ChildCode

\* C8: the close-request handler is idempotent: a second invocation right
\* after the first changes nothing (no take, no signal, no force-kill, no
\* write of the exit-code cell).
C8_DismissIdempotent ==
    (pc = "loop" /\ WindowShown) =>
        \A a \in SigResults, b \in SigResults :
            LET once == close_request(State, a)
            IN  /\ close_request(once, b) = once
                /\ Has("take_close") => once = State

C8_Witness ==
    /\ pc = "loop"
    /\ Has("host_dismiss") /\ Has("take_close") /\ Has("force_kill")
    /\ Count("take_close") = 1 /\ Count("write_close") = 1

\* C9: when the supervisor exits, a child that was created has been reaped
\* or force-killed.
C9_NoLeak ==
    (pc = "exited" /\ Has("spawn")) => (proc = "reaped" \/ killed)

\* C10: under fair scheduling, once the child has exited the window is
\* eventually closed and the program exits with an exit code written by one
\* of the termination paths.
C10_EventuallyExits ==
    (WindowShown /\ proc \in {"zombie", "reaped"}) ~>
        (pc = "exited" /\ window = "destroyed" /\ TriggerWrites >= 1)

\* C11: when the spawn or the creation of the overlay window fails, the
\* exit-code cell is 1, no window is presented, no trigger handler is ever
\* registered (the slot is never filled, the poller never installed, no
\* trigger leaves an effect), and the program exits with code 1.
C11_ActivateFailure ==
    Has("write_activate") =>
        /\ exit_code = FailureCode
        /\ window = "none" /\ icon = "none"
        /\ child_cell = "None" /\ ~poller /\ wait = "idle"
        /\ \A i \in DOMAIN log : log[i] \in {"spawn", "write_activate"}
        /\ pc # "aborted"
        /\ pc = "exited" => final = <<FailureCode>>

C11_Witness ==
    /\ pc = "exited"
    /\ log = <<"spawn", "write_activate">>
    /\ final = <<FailureCode>>

\* C12: when the offloaded blocking wait fails (the wait call errors, or the
\* offloaded task fails), the continuation writes exit code 1 and still
\* requests the window close: the window is gone and the run ends with 1.
C12_WaitFailure ==
    (wait = "done" /\ wait_result.kind \in {"io_err", "join_err"}) =>
        /\ Has("write_wait")
        /\ exit_code = FailureCode
        /\ window = "destroyed"
        /\ ~Has("host_dismiss") => Before("write_wait", "close_request")
        /\ pc # "aborted"
        /\ pc = "exited" => final = <<FailureCode>>

C12_Witness ==
    /\ pc = "exited"
    /\ wait = "done" /\ wait_result.kind = "io_err"
    /\ proc = "running"
    /\ ~Has("host_dismiss")
    /\ final = <<FailureCode>>

\* C13: a force-kill happens if and only if the close-request handler took
\* the handle and its graceful signal returned an error; a signal failure on
\* the user-cancel path never leads to a force-kill.
C13_ForceKillOnlyOnDismiss ==
    /\ Has("force_kill") <=> (Has("take_close") /\ Has("sigusr1_err"))
    /\ Has("take_escape") => (~Has("force_kill") /\ ~killed)
    /\ Has("force_kill") =>
           /\ Before("take_close", "sigusr1_err")
           /\ Before("sigusr1_err", "force_kill")
           /\ Count("force_kill") = 1
    /\ killed => Has("force_kill")

C13_Witness ==
    /\ Has("take_close") /\ Has("sigusr1_err") /\ Has("force_kill")
    /\ killed /\ proc = "zombie"

C15_PanicComboOnly ==
    (pc = "loop" /\ window = "open") =>
        \A keyval \in Keys, m \in SUBSET Modifiers,
           bres \in BcastResults, sigres \in SigResults :
            LET r     == key_pressed(State, keyval, m, bres, sigres)
                panic == keyval = "Escape" /\ "ALT" \in m /\ "CONTROL" \in m
                local == IF child_cell = "Some"
                         THEN initiate_shutdown(
                                  Logged([State EXCEPT !.child_cell = "None"],
                                         "take_escape"), sigres)
                         ELSE State
            IN  /\ r.bcasts = IF panic THEN bcasts + 1 ELSE bcasts
                /\ keyval # "Escape" => r = State
                /\ (keyval = "Escape" /\ ~panic) => r = local

C15_Witness ==
    /\ Has("take_escape") /\ Has("killall_ok")
    /\ Pos("take_escape") < Pos("killall_ok")
    /\ bcasts = 1

\* C16: the command handed to spawn always has length at least 1:
\* Config::from replaces an empty argument list by the default three-element
\* command and keeps a non-empty one unchanged, and spawn called with an
\* empty command returns an error without creating a process.
C16_CommandNonEmpty ==
    /\ pc # "start" =>
           /\ Len(command) >= 1
           /\ args = <<>> => command = <<"waystt", "--pipe-to", "wl-copy">>
           /\ args # <<>> => command = args
    /\ \A os_ok \in BOOLEAN : spawn(State, <<>>, os_ok) = <<State, "EmptyCommand">>
    /\ \A os_ok \in BOOLEAN : spawn(State, command, os_ok)[2] = "EmptyCommand" => pc = "start"

C16_Witness ==
    /\ Has("spawn") /\ pc = "loop"
    /\ args = <<>> /\ Len(command) = 3

\* C17: when a poll tick's try_wait reports an exit status, the poller itself
\* removes the handle from the slot before the exit code is written and the
\* close is requested, and no later poll tick runs in that run.
C17_PollerTakes ==
    Has("write_poll") =>
        /\ child_cell = "None"
        /\ Takes = 1
        /\ pc = "loop" => ~poller

\* C18: a poll tick that finds the slot empty stops the poller and changes
\* nothing else; a poll tick that finds the slot occupied with the child
\* still running changes nothing at all, and polling continues.
C18_PollFrame ==
    (pc = "loop" /\ poller) =>
        \A err \in BOOLEAN, sigres \in SigResults :
            LET t == child_monitor_tick(State, err, sigres)
            IN  /\ child_cell = "None" => t = [State EXCEPT !.poller = FALSE]
                /\ (child_cell = "Some" /\ proc = "running" /\ ~err) =>
                       (t = State /\ t.poller)

C18_Witness ==
    /\ pc = "loop" /\ window = "open"
    /\ Has("take_escape") /\ wait = "blocking"
    /\ ~poller

\* C19: the worker that runs the blocking wait leaves the slot, the exit-code
\* cell and the window alone; the result is consumed by the continuation
\* only, strictly after the wait returned, and never while another handler
\* holds the slot.
C19_WorkerIsolated ==
    /\ [][(wait = "blocking" /\ wait' = "returned") =>
              /\ child_cell' = child_cell /\ child_borrowed' = child_borrowed
              /\ exit_code' = exit_code
              /\ window' = window /\ icon' = icon /\ poller' = poller]_vars
    /\ [][(wait = "returned" /\ wait' = "done") =>
              /\ ~child_borrowed /\ ~child_borrowed'
              /\ Len(log') > Len(log) /\ log'[Len(log) + 1] = "write_wait"]_vars
    /\ [](Has("write_wait") => Before("wait_return", "write_wait"))
    /\ []((wait \in {"idle", "blocking", "returned"}) => ~Has("write_wait"))

C19_Witness ==
    /\ wait = "done" /\ wait_result.kind = "ok"
    /\ Before("wait_return", "write_wait")
    /\ exit_code = UnwrapOr(status, FailureCode) /\ status # <<>> /\ status # <<0>>

\* C20: no handler accesses the child slot while another handler still holds
\* its exclusive borrow; in particular the close-request handler never runs
\* while the poller's borrow is held, and the supervisor never aborts on it.
C20_NoDoubleBorrow ==
    ~child_borrowed /\ pc # "aborted"

SignalEntries == {"sigusr1_ok", "sigusr1_err", "force_kill"}

\* C21: neither the graceful signal nor the force-kill is issued for a child
\* whose exit status has already been collected: once a poll tick's try_wait
\* has returned the status (the poller then writes it), no later step sends
\* SIGUSR1 or SIGKILL to that PID; nor does one after the worker's wait
\* returned the status.
C21_NoSignalAfterReap ==
    /\ \A i \in DOMAIN log, j \in DOMAIN log :
           (log[i] = "write_poll" /\ j > i) => log[j] \notin SignalEntries
    /\ \A i \in DOMAIN log, j \in DOMAIN log :
           (log[i] = "wait_return" /\ j > i) => log[j] \notin SignalEntries
    /\ (Has("write_poll") /\ pc # "aborted") => ~Has("take_close")

C21_Witness ==
    /\ Has("write_poll") /\ proc = "reaped" /\ status # <<>>
    /\ Has("close_request")
    /\ \A i \in DOMAIN log : log[i] \notin SignalEntries

\* C22: the event loop does not return, and main does not read the exit-code
\* cell, while a user-cancel shutdown is in flight (handle taken by the
\* Escape handler, wait continuation not yet run); after a user-cancel the
\* program exits with 0 only if the child's own exit code is 0.
C22_NoExitDuringWait ==
    Has("take_escape") =>
        /\ pc \in {"returned", "exited"} => wait = "done"
        /\ (pc = "exited" /\ final = <<0>>) =>
               (wait_result.kind = "ok" /\ wait_result.code = <<0>>)

====
